---------------------------- MODULE Spec2Model ----------------------------
(***************************************************************************)
(* A model of ompl::control::Syclop (src/unnamed/part_000): the            *)
(* decomposition graph with its region and edge estimates, the lead        *)
(* computation, the availability distribution and the solve loop.          *)
(*                                                                         *)
(* Real numbers (alpha, weight, cost, free volume) are exact rationals     *)
(* <<numerator, denominator>> in lowest terms.  RNG draws and              *)
(* probabilities are hundredths (uniform01() in [0,1) is 0..99).           *)
(***************************************************************************)
EXTENDS Integers, Sequences, FiniteSets, TLC

(***************************************************************************)
(* Bounds of the model.  Four regimes are explored: one solve with long    *)
(* loops; one solve with several start and goal states, whose leads go to  *)
(* different goal regions; one solve with a caller's edge cost factor and  *)
(* free-volume samples; and the life cycle (setup, solve, clear, setup and *)
(* solve again).                                                           *)
(***************************************************************************)
NumRegions == 3            \* decomp_->getNumRegions()
NumCells == 1              \* cells of the coverage grid covGrid_
MaxDist == 2               \* goal distances are 0..MaxDist
MaxBatch == 1              \* most motions one selectAndExtend produces
\* one solve in depth
MaxMotions == 3            \* capacity of the low-level tree
MaxLeads == 2              \* outer iterations before ptc holds
MaxRegionExpansions == 2   \* numRegionExpansions_
MaxTreeSelections == 1     \* numTreeSelections_
\* one solve over varied inputs and estimates
MaxStarts == 2             \* start states of the problem definition
MaxGoals == 2              \* goal states the goal region lets pis_ sample
MaxFactors == 1            \* edge cost factors the caller registers
MaxFreeVolSamples == 1     \* numFreeVolSamples_
\* the life cycle
MaxSolves == 2             \* calls of solve that reach the main loop
MaxSetups == 2             \* calls of setup
MaxClears == 1             \* calls of clear
MaxFailed == 1             \* calls of solve that fail for want of states

InDepth ==
    [solves |-> 1, setups |-> 1, clears |-> 0, failed |-> 0, factors |-> 0,
     motions |-> MaxMotions, starts |-> 1, goals |-> 1, leads |-> MaxLeads,
     numRegionExpansions |-> MaxRegionExpansions,
     numTreeSelections |-> MaxTreeSelections, numFreeVolSamples |-> 0]
ManyStates ==
    [solves |-> 1, setups |-> 1, clears |-> 0, failed |-> 0, factors |-> 0,
     motions |-> MaxStarts + 1, starts |-> MaxStarts, goals |-> MaxGoals,
     leads |-> MaxLeads, numRegionExpansions |-> 1, numTreeSelections |-> 1,
     numFreeVolSamples |-> 0]
Estimates ==
    [solves |-> 1, setups |-> 1, clears |-> 0, failed |-> 0, factors |-> MaxFactors,
     motions |-> 2, starts |-> 1, goals |-> 1,
     leads |-> 1, numRegionExpansions |-> 1, numTreeSelections |-> 1,
     numFreeVolSamples |-> MaxFreeVolSamples]
LifeCycle ==
    [solves |-> MaxSolves, setups |-> MaxSetups, clears |-> MaxClears,
     failed |-> MaxFailed, factors |-> 0, motions |-> 2, starts |-> 1, goals |-> 1,
     leads |-> 1, numRegionExpansions |-> 1, numTreeSelections |-> 1,
     numFreeVolSamples |-> 0]
Regimes == {InDepth, ManyStates, Estimates, LifeCycle}

(***************************************************************************)
(* Program constants, in hundredths.                                       *)
(***************************************************************************)
PROB_ABANDON_LEAD_EARLY == 25
PROB_KEEP_ADDING_TO_AVAIL == 95
PROB_SHORTEST_PATH == 95

\* rng_.uniform01() lies in [0,1): its least and greatest outcomes decide every
\* comparison with a probability in hundredths as the whole range does.
Uniform01 == {0, 99}

DecompRegions == 0..(NumRegions - 1)
Cells == 0..(NumCells - 1)
NoRegion == -1
NoMotion == 0
Infinity == MaxDist + 1    \* std::numeric_limits<double>::infinity()

(***************************************************************************)
(* Exact rationals.                                                        *)
(***************************************************************************)
RECURSIVE GCD(_, _)
GCD(a, b) == IF b = 0 THEN a ELSE GCD(b, a % b)

Indeterminate == <<0, 0>>  \* a double that was never assigned
Rat(n, d) ==
    IF d = 0 THEN Indeterminate
    ELSE LET g == GCD(n, d) IN <<n \div g, d \div g>>
RMul(x, y) == Rat(x[1] * y[1], x[2] * y[2])
RAdd(x, y) == Rat(x[1] * y[2] + y[1] * x[2], x[2] * y[2])
RLess(x, y) == x[1] * y[2] < y[1] * x[2]
RInt(n) == <<n, 1>>
Epsilon == <<1, 2>>        \* numeric_limits<double>::epsilon(): the least free volume

RECURSIVE SeqOfSet(_)
SeqOfSet(S) ==
    IF S = {} THEN <<>>
    ELSE LET m == CHOOSE x \in S : \A y \in S : x <= y
         IN <<m>> \o SeqOfSet(S \ {m})

RECURSIVE Perms(_)
Perms(S) ==
    IF S = {} THEN {<<>>}
    ELSE UNION {{<<x>> \o p : p \in Perms(S \ {x})} : x \in S}

Range(s) == {s[k] : k \in DOMAIN s}

VARIABLES
    neighbors,        \* the Decomposition: region -> its neighbours
    isSetup,          \* base::Planner::setup_
    regions,          \* graph_ vertices: vertex -> Region
    adjs,             \* graph_ edges, in creation order: Adjacency objects
    regionsToEdge,    \* regionsToEdge_: <<u,v>> -> position in adjs (0: null)
    edgeCostFactors,  \* edgeCostFactors_
    graphReady,       \* graphReady_
    numMotions,       \* numMotions_
    lead,             \* lead_
    availDist,        \* availDist_: sequence of [key, weight]
    startRegions,     \* startRegions_
    goalRegions,      \* goalRegions_
    probKeepAddingToAvail, \* probKeepAddingToAvail_
    tree,             \* the low-level tree: motion id -> Motion
    pdefStarts,       \* start states of the problem definition
    startsTaken,      \* start states pis_.nextStart() has returned
    pdefGoals,        \* goal states the goal region lets pis_ sample
    goalsTaken,       \* goal states pis_.nextGoal() has returned
    ptc,              \* whether the termination condition has become true
    loc,              \* solve's local variables
    paths,            \* solution paths added to the goal
    retval,           \* what the last solve returned
    limits,           \* the regime explored, with the planner's loop counts
    calls,            \* calls made so far
    pc,               \* where the planner is
    css,              \* a ConstrainedStateSpace: si_, setup_, delta_, ...
    interp            \* the last call of ConstrainedStateSpace::interpolate

vars == <<neighbors, isSetup, regions, adjs, regionsToEdge, edgeCostFactors,
          graphReady, numMotions, lead, availDist, startRegions, goalRegions,
          probKeepAddingToAvail, tree, pdefStarts, startsTaken, pdefGoals,
          goalsTaken,
          ptc, loc, paths, retval, limits, calls, pc, css, interp>>

(***************************************************************************)
(* The Decomposition: a chain, a ring, and a chain whose last region is    *)
(* cut off (its goal cannot be reached).                                   *)
(***************************************************************************)
ChainNeighbors == [r \in DecompRegions |-> {r - 1, r + 1} \cap DecompRegions]
RingNeighbors ==
    [r \in DecompRegions |->
        {(r + 1) % NumRegions, (r + NumRegions - 1) % NumRegions} \ {r}]
SplitNeighbors ==
    [r \in DecompRegions |->
        IF r = NumRegions - 1 THEN {}
        ELSE ({r - 1, r + 1} \cap DecompRegions) \ {NumRegions - 1}]
Decompositions == {ChainNeighbors, RingNeighbors, SplitNeighbors}

\* decomp_->getNeighbors(r, out): an index the decomposition does not have
\* has no neighbours.
getNeighbors(r) == IF r \in DecompRegions THEN SeqOfSet(neighbors[r]) ELSE <<>>

\* States are known by what the planner asks of them: locateRegion,
\* covGrid_.locateRegion, goal->isSatisfied and its distance.
States ==
    {s \in [region : DecompRegions, cell : Cells, dist : 0..MaxDist, sat : BOOLEAN] :
        s.sat <=> (s.dist = 0)}

(***************************************************************************)
(* Regions and adjacencies.                                                *)
(***************************************************************************)
\* Region as buildGraph leaves it: initRegion assigns numSelections, volume,
\* percentValidCells and freeVolume; alpha and weight are not assigned.
initRegion(index) ==
    [index |-> index, numSelections |-> 0, volume |-> RInt(1),
     percentValidCells |-> RInt(1), freeVolume |-> RInt(1),
     covGridCells |-> {}, motions |-> <<>>,
     alpha |-> Indeterminate, weight |-> Indeterminate]

\* The selection count left out of line 256: weight is f / (1 + |covGridCells|).
updateRegionWithoutSelections(r) ==
    LET f == RMul(RMul(r.freeVolume, r.freeVolume), RMul(r.freeVolume, r.freeVolume))
        c == 1 + Cardinality(r.covGridCells)
    IN [r EXCEPT
          !.alpha = Rat(f[2], c * f[1]),
          !.weight = Rat(f[1], f[2] * c)]

updateRegion(r) ==
    LET f == RMul(RMul(r.freeVolume, r.freeVolume), RMul(r.freeVolume, r.freeVolume))
        c == 1 + Cardinality(r.covGridCells)
    IN [r EXCEPT
          !.alpha = Rat(f[2], c * f[1]),
          !.weight = Rat(f[1], f[2] * c * (1 + r.numSelections * r.numSelections))]

\* An Adjacency as add_edge constructs it.
NewAdjacency ==
    [source |-> NoRegion, target |-> NoRegion, cost |-> Indeterminate,
     empty |-> TRUE, numLeadInclusions |-> 0, numSelections |-> 0,
     covGridCells |-> {}]

\* Region::clear and Adjacency::clear
ClearRegion(r) == [r EXCEPT !.motions = <<>>, !.covGridCells = {}]
ClearAdjacency(a) == [a EXCEPT !.covGridCells = {}]

\* A caller's edge cost factor.
UserEdgeCost(r, s) == RInt(2)

defaultEdgeCost(V, E, M, r, s) ==
    LET a == E[M[<<r, s>>]]
        nsel == IF a.empty THEN a.numLeadInclusions ELSE a.numSelections
        k == Cardinality(a.covGridCells)
        factor == Rat(1 + nsel * nsel, 1 + k * k)
    IN RMul(factor, RMul(V[a.source].alpha, V[a.target].alpha))

EdgeCostFactor(fn, V, E, M, r, s) ==
    IF fn = "default" THEN defaultEdgeCost(V, E, M, r, s) ELSE UserEdgeCost(r, s)

RECURSIVE FactorProduct(_, _, _, _, _, _, _)
FactorProduct(fs, k, V, E, M, r, s) ==
    IF k > Len(fs) THEN RInt(1)
    ELSE RMul(EdgeCostFactor(fs[k], V, E, M, r, s),
              FactorProduct(fs, k + 1, V, E, M, r, s))

\* updateEdge(a): a.cost is the product of the registered factors at
\* (a.source->index, a.target->index).
updateEdge(fs, V, E, M, a) ==
    [a EXCEPT !.cost = FactorProduct(fs, 1, V, E, M, a.source, a.target)]

\* The adjacencies of the graph after position k has been updated.
UpdateEdgeAt(fs, V, E, M, k) == [E EXCEPT ![k] = updateEdge(fs, V, E, M, E[k])]

\* initEdge reads regionsToEdge_[(source,target)] through the default factor
\* before it has stored the new adjacency there.
InitEdgeReadsNull(fs, M, u, v) ==
    /\ \E k \in DOMAIN fs : fs[k] = "default"
    /\ (<<u, v>> \notin DOMAIN M \/ M[<<u, v>>] = 0)

\* initEdge(adj, source, target) on the adjacency add_edge has just appended.
initEdge(fs, G, u, v) ==
    LET a0 == [NewAdjacency EXCEPT !.source = u, !.target = v]
        a1 == updateEdge(fs, G.V, G.E, G.M, a0)
        E1 == Append(G.E, a1)
        key == <<u, v>>
    IN [V |-> G.V, E |-> E1,
        M |-> [p \in (DOMAIN G.M) \cup {key} |->
                  IF p = key THEN Len(E1) ELSE G.M[p]]]

\* The second loop of buildGraph: an edge per vertex and neighbour.
RECURSIVE AddEdges(_, _, _, _)
AddEdges(fs, G, pairs, k) ==
    IF k > Len(pairs) THEN G
    ELSE AddEdges(fs, initEdge(fs, G, pairs[k][1], pairs[k][2]), pairs, k + 1)

RECURSIVE NeighborPairs(_, _)
NeighborPairs(v, nV) ==
    IF v >= nV THEN <<>>
    ELSE LET ns == getNeighbors(v)
         IN [k \in 1..Len(ns) |-> <<v, ns[k]>>] \o NeighborPairs(v + 1, nV)

NumVertices(V) == Cardinality(DOMAIN V)

buildGraph(fs, G) ==
    LET nOld == NumVertices(G.V)
        nNew == nOld + NumRegions
        V1 == [v \in 0..(nNew - 1) |-> IF v < nOld THEN G.V[v] ELSE initRegion(v)]
    IN AddEdges(fs, [V |-> V1, E |-> G.E, M |-> G.M], NeighborPairs(0, nNew), 1)

\* Whether buildGraph dereferences a null or dangling pointer: initEdge
\* evaluates the registered factors before regionsToEdge_ holds the new
\* adjacency, so the default factor reads a null entry, or an adjacency of an
\* earlier buildGraph whose source and target add_vertex has moved.
buildGraphUndefined(fs, G) ==
    /\ \E k \in DOMAIN fs : fs[k] = "default"
    /\ NeighborPairs(0, NumVertices(G.V) + NumRegions) # <<>>

\* Whether it dereferences a null pointer, which no build survives.
buildGraphNull(fs, G) ==
    LET pairs == NeighborPairs(0, NumVertices(G.V) + NumRegions)
    IN \E k \in DOMAIN pairs : InitEdgeReadsNull(fs, G.M, pairs[k][1], pairs[k][2])

\* Adjacencies whose source and target point into vertex storage that a later
\* buildGraph has moved.
Dangling(V, E) ==
    LET perBuild == Len(NeighborPairs(0, NumRegions))
        builds == NumVertices(V) \div NumRegions
    IN IF builds <= 1 THEN {} ELSE 1..(Len(E) - perBuild)

\* decomp_->getRegionVolume(i): unit regions.
getRegionVolume(i) == RInt(1)

\* The uniform samples setupRegionEstimates draws: the region each lies in
\* and whether the validity checker accepts it.
SampleRuns == [1..limits.numFreeVolSamples -> [rid : DecompRegions, valid : BOOLEAN]]

CountSamples(samples, i, onlyValid) ==
    Cardinality({k \in DOMAIN samples :
                    samples[k].rid = i /\ (onlyValid => samples[k].valid)})

setupRegionEstimates(V, samples) ==
    [v \in DOMAIN V |->
        IF v \notin DecompRegions THEN V[v]
        ELSE LET numTotal == CountSamples(samples, v, FALSE)
                 numValid == CountSamples(samples, v, TRUE)
                 pv == IF numTotal = 0 THEN RInt(1) ELSE Rat(numValid, numTotal)
                 fv == RMul(pv, getRegionVolume(v))
             IN updateRegion([V[v] EXCEPT
                    !.volume = getRegionVolume(v),
                    !.percentValidCells = pv,
                    !.freeVolume = IF RLess(fv, Epsilon) THEN Epsilon ELSE fv])]

RECURSIVE setupEdgeEstimatesFrom(_, _, _, _, _)
setupEdgeEstimatesFrom(fs, V, E, M, k) ==
    IF k > Len(E) THEN E
    ELSE LET E1 == [E EXCEPT ![k] = [@ EXCEPT !.empty = TRUE,
                                              !.numLeadInclusions = 0,
                                              !.numSelections = 0]]
         IN setupEdgeEstimatesFrom(fs, V, UpdateEdgeAt(fs, V, E1, M, k), M, k + 1)

setupEdgeEstimates(fs, V, E, M) == setupEdgeEstimatesFrom(fs, V, E, M, 1)

\* setupEdgeEstimates calls each factor with a.source->index: a read through
\* a dangling pointer for the adjacencies of an earlier buildGraph.
setupEdgeEstimatesUndefined(fs, V, E) == fs # <<>> /\ Dangling(V, E) # {}

\* The test of line 293 dropped: the cell is inserted and true returned
\* whether or not the region had it.
updateCoverageEstimateAlwaysTrue(r, s) ==
    [region |-> updateRegion([r EXCEPT !.covGridCells = @ \cup {s.cell}]),
     improved |-> TRUE]

\* updateCoverageEstimate(r, s): the region and what it returns.
updateCoverageEstimate(r, s) ==
    IF s.cell \in r.covGridCells
    THEN [region |-> r, improved |-> FALSE]
    ELSE [region |-> updateRegion([r EXCEPT !.covGridCells = @ \cup {s.cell}]),
          improved |-> TRUE]

\* updateConnectionEstimate(c, d, s): the adjacencies and what it returns.
updateConnectionEstimate(fs, V, E, M, c, d, s) ==
    LET k == M[<<c, d>>]
    IN IF s.cell \in E[k].covGridCells
       THEN [E |-> E, improved |-> FALSE]
       ELSE [E |-> UpdateEdgeAt(fs, V,
                       [E EXCEPT ![k].covGridCells = @ \cup {s.cell}], M, k),
             improved |-> TRUE]

clearGraphDetailsRegions(V) == [v \in DOMAIN V |-> ClearRegion(V[v])]
clearGraphDetailsEdges(E) == [k \in DOMAIN E |-> ClearAdjacency(E[k])]

(***************************************************************************)
(* computeLead                                                             *)
(***************************************************************************)
HasEdge(E, u, v) == \E k \in DOMAIN E : E[k].source = u /\ E[k].target = v

\* The weight A* sees between u and v: the cheapest of the parallel edges.
EdgeWeight(E, u, v) ==
    LET ks == {k \in DOMAIN E : E[k].source = u /\ E[k].target = v}
        best == CHOOSE k \in ks : \A l \in ks : ~RLess(E[l].cost, E[k].cost)
    IN E[best].cost

RECURSIVE PathsFrom(_, _, _)
PathsFrom(E, path, goal) ==
    LET u == path[Len(path)]
    IN IF u = goal THEN {path}
       ELSE UNION {PathsFrom(E, Append(path, v), goal) :
                      v \in {w \in DecompRegions \ Range(path) : HasEdge(E, u, w)}}

RECURSIVE PathCost(_, _, _)
PathCost(E, path, k) ==
    IF k >= Len(path) THEN RInt(0)
    ELSE RAdd(EdgeWeight(E, path[k], path[k + 1]), PathCost(E, path, k + 1))

\* Line 352 dropped: a search that finds no path leaves lead_ as it was.
ShortestPathLeadsKeepsLead(E, start, goal) ==
    LET ps == PathsFrom(E, <<start>>, goal)
    IN IF ps = {} THEN {lead}
       ELSE {p \in ps : \A q \in ps : ~RLess(PathCost(E, q, 1), PathCost(E, p, 1))}

\* boost::astar_search and the backtracking of its predecessor map: the
\* cheapest paths from start to goal (ties go to the visitation order); no
\* lead (found_goal is not thrown) when there is none.
ShortestPathLeads(E, start, goal) ==
    LET ps == PathsFrom(E, <<start>>, goal)
    IN IF ps = {} THEN {<<>>}
       ELSE {p \in ps : \A q \in ps : ~RLess(PathCost(E, q, 1), PathCost(E, p, 1))}

RECURSIVE LeadFromParents(_, _, _)
LeadFromParents(parents, region, start) ==
    IF region = start THEN <<start>>
    ELSE Append(LeadFromParents(parents, parents[region], start), region)

\* adjacent_vertices(v): the targets of v's out-edges.
AdjacentVertices(E, v) == {E[k].target : k \in {l \in DOMAIN E : E[l].source = v}}

\* The random DFS from a stack (top last) and the parents so far: each
\* undiscovered neighbour of the popped vertex gets it as parent; the
\* neighbours are pushed in an order the RNG draws, and the search stops when
\* the goal is among them.
RECURSIVE RandomDFS(_, _, _, _, _)
RandomDFS(E, stack, parents, start, goal) ==
    IF stack = <<>> THEN {<<>>}
    ELSE LET v == stack[Len(stack)]
             rest == SubSeq(stack, 1, Len(stack) - 1)
             found == {w \in AdjacentVertices(E, v) : parents[w] < 0}
             parents1 == [w \in DOMAIN parents |-> IF w \in found THEN v ELSE parents[w]]
         IN IF goal \in found
            THEN {LeadFromParents(parents1, goal, start)}
            ELSE UNION {RandomDFS(E, rest \o order, parents1, start, goal) :
                           order \in Perms(found)}

RandomDFSLeads(E, start, goal) ==
    RandomDFS(E, <<start>>,
              [w \in DecompRegions |-> IF w = start THEN start ELSE -1], start, goal)

\* Lines 353-357 dropped: a start region that is the goal region is searched
\* for like any other.
LeadsWithoutSingleton(E, start, goal, u) ==
    IF u < PROB_SHORTEST_PATH THEN ShortestPathLeads(E, start, goal)
    ELSE RandomDFSLeads(E, start, goal)

\* The leads computeLead can write, by the branch the RNG draw u selects.
Leads(E, start, goal, u) ==
    IF start = goal THEN {<<start>>}
    ELSE IF u < PROB_SHORTEST_PATH THEN ShortestPathLeads(E, start, goal)
    ELSE RandomDFSLeads(E, start, goal)

\* astar_search initialises its distance and predecessor maps for every
\* vertex of graph_; the vectors behind them hold getNumRegions() elements, so
\* it writes past their end when graph_ has more vertices than that.
astarUndefined(V, start, goal, u) ==
    start # goal /\ u < PROB_SHORTEST_PATH /\ NumVertices(V) > NumRegions

\* The loop over the lead's edges: an empty edge is counted and re-costed.
RECURSIVE updateLeadEdges(_, _, _, _, _, _)
\* The test of line 449 dropped: every edge of the lead is counted.
RECURSIVE updateLeadEdgesCountsAll(_, _, _, _, _, _)
updateLeadEdgesCountsAll(fs, V, E, M, ld, i) ==
    IF i >= Len(ld) THEN E
    ELSE LET k == M[<<ld[i], ld[i + 1]>>]
             E1 == UpdateEdgeAt(fs, V,
                       [E EXCEPT ![k].numLeadInclusions = @ + 1], M, k)
         IN updateLeadEdgesCountsAll(fs, V, E1, M, ld, i + 1)

updateLeadEdges(fs, V, E, M, ld, i) ==
    IF i >= Len(ld) THEN E
    ELSE LET k == M[<<ld[i], ld[i + 1]>>]
             E1 == IF E[k].empty
                   THEN UpdateEdgeAt(fs, V,
                            [E EXCEPT ![k].numLeadInclusions = @ + 1], M, k)
                   ELSE E
         IN updateLeadEdges(fs, V, E1, M, ld, i + 1)

\* The test of line 471 dropped: a region without motions is added too.
RECURSIVE computeAvailableRegionsAddsEmpty(_, _, _, _, _, _)
computeAvailableRegionsAddsEmpty(V, ld, i, draws, d, prob) ==
    IF i < 1 THEN <<>>
    ELSE <<[key |-> ld[i], weight |-> V[ld[i]].weight]>> \o
         (IF draws[d] >= prob THEN <<>>
          ELSE computeAvailableRegionsAddsEmpty(V, ld, i - 1, draws, d + 1, prob))

\* The stop roll of line 474 moved out of the test of line 471: a region
\* without motions can end the walk.
RECURSIVE computeAvailableRegionsRollsOnEmpty(_, _, _, _, _, _)
computeAvailableRegionsRollsOnEmpty(V, ld, i, draws, d, prob) ==
    IF i < 1 THEN <<>>
    ELSE (IF V[ld[i]].motions # <<>>
          THEN <<[key |-> ld[i], weight |-> V[ld[i]].weight]>> ELSE <<>>) \o
         (IF draws[d] >= prob THEN <<>>
          ELSE computeAvailableRegionsRollsOnEmpty(V, ld, i - 1, draws, d + 1, prob))

\* The walk of line 469 stopped at i > 0: the first region of the lead is
\* never looked at.
RECURSIVE computeAvailableRegionsSkipsStart(_, _, _, _)
computeAvailableRegionsSkipsStart(V, ld, draws, prob) ==
    IF Len(ld) < 2 THEN <<>>
    ELSE IF V[ld[Len(ld)]].motions # <<>>
         THEN <<[key |-> ld[Len(ld)], weight |-> V[ld[Len(ld)]].weight]>> \o
              (IF draws[1] >= prob THEN <<>>
               ELSE computeAvailableRegionsSkipsStart(
                        V, SubSeq(ld, 1, Len(ld) - 1), Tail(draws), prob))
         ELSE computeAvailableRegionsSkipsStart(
                  V, SubSeq(ld, 1, Len(ld) - 1), draws, prob)

(***************************************************************************)
(* computeAvailableRegions: the walk from the goal end of the lead; draws  *)
(* is the sequence of RNG outcomes, one per region added.                  *)
(***************************************************************************)
RECURSIVE computeAvailableRegionsFrom(_, _, _, _, _, _)
computeAvailableRegionsFrom(V, ld, i, draws, d, prob) ==
    IF i < 1 THEN <<>>
    ELSE IF V[ld[i]].motions # <<>>
         THEN <<[key |-> ld[i], weight |-> V[ld[i]].weight]>> \o
              (IF draws[d] >= prob THEN <<>>
               ELSE computeAvailableRegionsFrom(V, ld, i - 1, draws, d + 1, prob))
         ELSE computeAvailableRegionsFrom(V, ld, i - 1, draws, d, prob)

computeAvailableRegions(V, ld, draws, prob) ==
    computeAvailableRegionsFrom(V, ld, Len(ld), draws, 1, prob)

Keys(dist) == {dist[k].key : k \in DOMAIN dist}


(***************************************************************************)
(* The planner's state after construction.                                 *)
(***************************************************************************)
NoLocals ==
    [chosenStartRegion |-> NoRegion, chosenGoalRegion |-> NoRegion,
     i |-> 0, j |-> 0, m |-> 1, region |-> NoRegion, improved |-> FALSE,
     newMotions |-> <<>>, solved |-> FALSE, solution |-> NoMotion,
     goalDist |-> Infinity, examined |-> {}]

Empty == [x \in {} |-> 0]

\* The planner is explored without a constrained state space, and the space
\* without a planner: these stand for "no space" and "no interpolation yet".
NoSpace == [si |-> "null", setup |-> FALSE, delta |-> 0, resolution |-> 0,
            strideOk |-> FALSE, op |-> "none", thrown |-> "none"]
NoCall == [geodesic |-> <<>>, found |-> FALSE, t |-> 0, index |-> 0,
           status |-> "none"]

Constructed(regime) ==
    /\ neighbors \in Decompositions
    /\ isSetup = FALSE
    /\ regions = Empty
    /\ adjs = <<>>
    /\ regionsToEdge = Empty
    /\ edgeCostFactors = <<>>
    /\ graphReady = FALSE
    /\ numMotions = 0
    /\ lead = <<>>
    /\ availDist = <<>>
    /\ startRegions = {}
    /\ goalRegions = {}
    /\ probKeepAddingToAvail = PROB_KEEP_ADDING_TO_AVAIL
    /\ tree = <<>>
    /\ pdefStarts = <<>>
    /\ startsTaken = 0
    /\ pdefGoals = 0
    /\ goalsTaken = 0
    /\ ptc = FALSE
    /\ loc = NoLocals
    /\ paths = <<>>
    /\ retval = FALSE
    /\ limits = regime
    /\ calls = [setup |-> 0, solve |-> 0, failed |-> 0, clear |-> 0, leads |-> 0]
    /\ pc = "idle"
    /\ css = NoSpace
    /\ interp = NoCall

Init == \E regime \in Regimes : Constructed(regime)

graphVars == <<regions, adjs, regionsToEdge>>
inputVars == <<neighbors, probKeepAddingToAvail, pdefStarts, pdefGoals, limits,
               css, interp>>
solveVars == <<numMotions, lead, availDist, startRegions, goalRegions, tree,
               startsTaken, goalsTaken, ptc, loc, paths, retval>>

\* What an operation with undefined behaviour may do: the build either dies
\* there or reads what the memory still holds and goes on.
Outcomes(undefined) == IF undefined THEN {"crash", "continue"} ELSE {"continue"}

Crashed ==
    pc \in {"crashed in buildGraph", "crashed in setupEdgeEstimates",
            "crashed in astar_search", "crashed in computeLead",
            "crashed in selectRegion"}

(***************************************************************************)
(* The caller: the problem definition's states, and the planner's API      *)
(* between two calls of solve.                                             *)
(***************************************************************************)
StartStates == {s \in States : s.dist = MaxDist}

addStartState ==
    /\ pc = "idle"
    /\ isSetup
    /\ Len(pdefStarts) < limits.starts
    /\ \E s \in StartStates : pdefStarts' = Append(pdefStarts, s)
    /\ UNCHANGED <<neighbors, isSetup, graphVars, edgeCostFactors, graphReady,
                   solveVars, probKeepAddingToAvail, pdefGoals, limits, calls, pc,
                   css, interp>>

addGoalState ==
    /\ pc = "idle"
    /\ isSetup
    /\ pdefGoals < limits.goals
    /\ pdefGoals' = pdefGoals + 1
    /\ UNCHANGED <<neighbors, isSetup, graphVars, edgeCostFactors, graphReady,
                   solveVars, probKeepAddingToAvail, pdefStarts, limits, calls, pc,
                   css, interp>>

setup ==
    /\ pc = "idle"
    /\ calls.setup < limits.setups
    /\ calls.setup <= calls.clear
    /\ calls' = [calls EXCEPT !.setup = @ + 1]
    /\ LET G0 == [V |-> regions, E |-> adjs, M |-> regionsToEdge]
       IN \E outcome \in Outcomes(buildGraphUndefined(edgeCostFactors, G0)) :
            IF outcome = "crash" \/ buildGraphNull(edgeCostFactors, G0)
            THEN /\ pc' = "crashed in buildGraph"
                 /\ UNCHANGED <<isSetup, graphVars, edgeCostFactors>>
            ELSE /\ LET G == buildGraph(edgeCostFactors, G0)
                    IN /\ regions' = G.V
                       /\ adjs' = G.E
                       /\ regionsToEdge' = G.M
                 /\ isSetup' = TRUE
                 /\ edgeCostFactors' = Append(edgeCostFactors, "default")
                 /\ pc' = "idle"
    /\ UNCHANGED <<inputVars, graphReady, solveVars>>

\* Line 61 dropped: clear leaves startRegions_ as the last solve left it.
clearKeepsStartRegions ==
    /\ pc = "idle"
    /\ isSetup
    /\ calls.clear < limits.clears
    /\ calls' = [calls EXCEPT !.clear = @ + 1]
    /\ startsTaken' = 0
    /\ goalsTaken' = 0
    /\ tree' = <<>>
    /\ lead' = <<>>
    /\ availDist' = <<>>
    /\ regions' = clearGraphDetailsRegions(regions)
    /\ adjs' = clearGraphDetailsEdges(adjs)
    /\ graphReady' = FALSE
    /\ goalRegions' = {}
    /\ UNCHANGED <<inputVars, isSetup, regionsToEdge, edgeCostFactors,
                   numMotions, ptc, loc, paths, retval, pc, startRegions>>

clear ==
    /\ pc = "idle"
    /\ isSetup
    /\ calls.clear < limits.clears
    /\ calls' = [calls EXCEPT !.clear = @ + 1]
    /\ startsTaken' = 0
    /\ goalsTaken' = 0
    /\ tree' = <<>>
    /\ lead' = <<>>
    /\ availDist' = <<>>
    /\ regions' = clearGraphDetailsRegions(regions)
    /\ adjs' = clearGraphDetailsEdges(adjs)
    /\ graphReady' = FALSE
    /\ startRegions' = {}
    /\ goalRegions' = {}
    /\ UNCHANGED <<inputVars, isSetup, regionsToEdge, edgeCostFactors,
                   numMotions, ptc, loc, paths, retval, pc>>

addEdgeCostFactor ==
    /\ pc = "idle"
    /\ Cardinality({k \in DOMAIN edgeCostFactors : edgeCostFactors[k] = "user"})
          < limits.factors
    /\ edgeCostFactors' = Append(edgeCostFactors, "user")
    /\ UNCHANGED <<inputVars, isSetup, graphVars, graphReady, solveVars, calls, pc>>

\* clearEdgeCostFactors putting the default factor back.
clearEdgeCostFactorsKeepsDefault ==
    /\ pc = "idle"
    /\ limits.factors > 0
    /\ edgeCostFactors' = <<"default">>
    /\ UNCHANGED <<inputVars, isSetup, graphVars, graphReady, solveVars, calls, pc>>

clearEdgeCostFactors ==
    /\ pc = "idle"
    /\ limits.factors > 0
    /\ edgeCostFactors' = <<>>
    /\ UNCHANGED <<inputVars, isSetup, graphVars, graphReady, solveVars, calls, pc>>

(***************************************************************************)
(* solve, step by step.  Each step runs from one poll of the termination   *)
(* condition (or one external call) to the next.                           *)
(***************************************************************************)
\* ptc(): once true it stays true.
PtcPoll == IF ptc THEN {TRUE} ELSE BOOLEAN

\* ptc() at the head of the main loop: true by the time limits.leads leads
\* have been computed.
PtcPollLoop == IF calls.leads >= limits.leads THEN {TRUE} ELSE PtcPoll

\* pis_.nextGoal(): the region of a goal state, or no state.
NextGoal == (IF goalsTaken < pdefGoals THEN DecompRegions ELSE {}) \cup {NoRegion}

\* The seeding loop: a root per start state pis_.nextStart() returns.
RECURSIVE Seed(_, _)
Seed(S, k) ==
    IF k > Len(pdefStarts) THEN S
    ELSE LET s == pdefStarts[k]
             T1 == Append(S.tree, [state |-> s, parent |-> NoMotion])
             r1 == [S.V[s.region] EXCEPT !.motions = Append(@, Len(T1))]
             r2 == updateCoverageEstimate(r1, s).region
         IN Seed([V |-> [S.V EXCEPT ![s.region] = r2], tree |-> T1,
                  startRegions |-> S.startRegions \cup {s.region},
                  numMotions |-> S.numMotions + 1], k + 1)

\* The check of lines 91-100 dropped: solve goes on without a goal region.
solveFailsOnlyWithoutStart(startRegs, needGoal, g) == startRegs = {}

\* Lines 84-100: solve gives up when it has no start region, or needs a goal
\* region and pis_.nextGoal() returns no state.
solveFails(startRegs, needGoal, g) ==
    startRegs = {} \/ (needGoal /\ g = NoRegion)

\* Lines 67-108: the estimates on the first solve, the roots, the goal region.
solve ==
    /\ pc = "idle"
    /\ isSetup
    /\ calls.solve < limits.solves
    /\ \E outcome \in Outcomes(~graphReady /\
              setupEdgeEstimatesUndefined(edgeCostFactors, regions, adjs)) :
         IF outcome = "crash"
         THEN /\ pc' = "crashed in setupEdgeEstimates"
              /\ UNCHANGED <<graphVars, graphReady, solveVars, calls>>
         ELSE \E samples \in SampleRuns, g \in NextGoal :
             LET V0 == IF graphReady THEN regions
                       ELSE setupRegionEstimates(regions, samples)
                 E0 == IF graphReady THEN adjs
                       ELSE setupEdgeEstimates(edgeCostFactors, V0, adjs, regionsToEdge)
                 S == Seed([V |-> V0, tree |-> tree, startRegions |-> startRegions,
                            numMotions |-> IF graphReady THEN numMotions ELSE 0],
                           startsTaken + 1)
                 needGoal == S.startRegions # {} /\ goalRegions = {}
                 fails == solveFails(S.startRegions, needGoal, g)
             IN /\ (g # NoRegion) => needGoal
                /\ fails => calls.failed < limits.failed
                /\ regions' = S.V
                /\ adjs' = E0
                /\ graphReady' = TRUE
                /\ numMotions' = S.numMotions
                /\ tree' = S.tree
                /\ startsTaken' = Len(pdefStarts)
                /\ startRegions' = S.startRegions
                /\ goalRegions' = IF g # NoRegion THEN {g} ELSE goalRegions
                /\ goalsTaken' = IF g # NoRegion THEN goalsTaken + 1 ELSE goalsTaken
                /\ ptc' = FALSE
                /\ loc' = NoLocals
                /\ IF fails
                   THEN /\ pc' = "idle"
                        /\ retval' = FALSE
                        /\ calls' = [calls EXCEPT !.failed = @ + 1]
                   ELSE /\ pc' = "while"
                        /\ calls' = [calls EXCEPT !.solve = @ + 1, !.leads = 0]
                        /\ UNCHANGED retval
                /\ UNCHANGED <<regionsToEdge, lead, availDist, paths>>
    /\ UNCHANGED <<inputVars, isSetup, edgeCostFactors>>

\* What the lead-edge loop (lines 446-454) does to regionsToEdge_ before the
\* build dies when lead_ is empty: lead_.size()-1 wraps, lead_[0] and lead_[1]
\* are read past the end, and operator[] may insert a null entry for them.
EmptyLeadMaps ==
    {regionsToEdge,
     [p \in (DOMAIN regionsToEdge) \cup {<<NoRegion, NoRegion>>} |->
         IF p \in DOMAIN regionsToEdge THEN regionsToEdge[p] ELSE 0]}

\* Line 109 to computeLead (line 126).
whileLoop ==
    /\ pc = "while"
    /\ \E b \in PtcPollLoop :
        /\ ptc' = b
        /\ IF b \/ loc.solved
           THEN /\ pc' = "result"
                /\ UNCHANGED <<graphVars, lead, goalRegions, goalsTaken, loc, calls>>
           ELSE \E cs \in startRegions, g \in NextGoal, u \in Uniform01 :
                  \E cg \in (IF g # NoRegion THEN {g} ELSE goalRegions) :
                    \E outcome \in Outcomes(astarUndefined(regions, cs, cg, u)),
                       ld \in Leads(adjs, cs, cg, u), M \in EmptyLeadMaps :
                      /\ goalRegions' = IF g # NoRegion THEN goalRegions \cup {g}
                                        ELSE goalRegions
                      /\ goalsTaken' = IF g # NoRegion THEN goalsTaken + 1
                                       ELSE goalsTaken
                      /\ loc' = [loc EXCEPT !.chosenStartRegion = cs,
                                            !.chosenGoalRegion = cg]
                      /\ calls' = [calls EXCEPT !.leads = @ + 1]
                      /\ UNCHANGED regions
                      /\ IF outcome = "crash"
                         THEN /\ lead' = <<>>
                              /\ UNCHANGED <<adjs, regionsToEdge>>
                              /\ pc' = "crashed in astar_search"
                         ELSE IF ld # <<>>
                         THEN /\ lead' = ld
                              /\ adjs' = updateLeadEdges(edgeCostFactors, regions,
                                             adjs, regionsToEdge, ld, 1)
                              /\ regionsToEdge' = regionsToEdge
                              /\ pc' = "avail"
                         ELSE /\ lead' = ld
                              /\ adjs' = adjs
                              /\ regionsToEdge' = M
                              /\ pc' = "crashed in computeLead"
    /\ UNCHANGED <<inputVars, isSetup, edgeCostFactors, graphReady, numMotions,
                   availDist, startRegions, tree, startsTaken, paths, retval>>

\* Line 127.
availStep ==
    /\ pc = "avail"
    /\ \E draws \in [1..Len(lead) -> Uniform01] :
          availDist' = computeAvailableRegions(regions, lead, draws,
                                               probKeepAddingToAvail)
    /\ loc' = [loc EXCEPT !.i = 0]
    /\ pc' = "for_i"
    /\ UNCHANGED <<inputVars, isSetup, graphVars, edgeCostFactors, graphReady,
                   numMotions, lead, startRegions, goalRegions, tree, startsTaken,
                   goalsTaken, ptc, paths, retval, calls>>

\* Line 128 and selectRegion (line 130).
forRegionExpansions ==
    /\ pc = "for_i"
    /\ IF loc.i < limits.numRegionExpansions /\ ~loc.solved
       THEN \E b \in PtcPoll :
              /\ ptc' = b
              /\ IF b
                 THEN pc' = "while" /\ UNCHANGED <<regions, loc>>
                 ELSE IF availDist = <<>>
                 THEN \* availDist_.sample on an empty distribution
                      pc' = "crashed in selectRegion" /\ UNCHANGED <<regions, loc>>
                 ELSE \E k \in DOMAIN availDist :
                        LET index == availDist[k].key
                        IN /\ regions' = [regions EXCEPT ![index] =
                                 updateRegion([@ EXCEPT !.numSelections = @ + 1])]
                           /\ loc' = [loc EXCEPT !.region = index,
                                                 !.improved = FALSE, !.j = 0]
                           /\ pc' = "for_j"
       ELSE pc' = "while" /\ UNCHANGED <<regions, loc, ptc>>
    /\ UNCHANGED <<inputVars, isSetup, adjs, regionsToEdge, edgeCostFactors,
                   graphReady, numMotions, lead, availDist, startRegions,
                   goalRegions, tree, startsTaken, goalsTaken, paths, retval, calls>>

\* selectAndExtend(region, newMotions): the extender selects a motion of the
\* region and extends the tree from it by a chain of new motions.
Extensions(r) ==
    IF r.motions = <<>> THEN {<<>>}
    ELSE LET free == IF limits.motions < Len(tree) THEN 0
                     ELSE limits.motions - Len(tree)
             room == IF free < MaxBatch THEN free ELSE MaxBatch
         IN UNION {{[k \in 1..n |->
                       [state |-> ss[k],
                        parent |-> IF k = 1 THEN sel ELSE Len(tree) + k - 1]] :
                      ss \in [1..n -> States], sel \in Range(r.motions)} :
                   n \in 0..room}

\* The loop of line 132 without its test of ptc().
forTreeSelectionsUnpolled ==
    /\ pc = "for_j"
    /\ IF loc.j < limits.numTreeSelections /\ ~loc.solved
       THEN \E new \in Extensions(regions[loc.region]) :
              /\ tree' = tree \o new
              /\ loc' = [loc EXCEPT
                    !.newMotions = [k \in 1..Len(new) |-> Len(tree) + k],
                    !.m = 1]
              /\ pc' = "for_m"
       ELSE pc' = "abandon" /\ UNCHANGED <<tree, loc>>
    /\ UNCHANGED <<inputVars, isSetup, graphVars, edgeCostFactors, graphReady,
                   numMotions, lead, availDist, startRegions, goalRegions,
                   startsTaken, goalsTaken, ptc, paths, retval, calls>>

\* Line 132 to selectAndExtend (line 135).
forTreeSelections ==
    /\ pc = "for_j"
    /\ IF loc.j < limits.numTreeSelections /\ ~loc.solved
       THEN \E b \in PtcPoll :
              /\ ptc' = b
              /\ IF b
                 THEN pc' = "abandon" /\ UNCHANGED <<tree, loc>>
                 ELSE \E new \in Extensions(regions[loc.region]) :
                        /\ tree' = tree \o new
                        /\ loc' = [loc EXCEPT
                              !.newMotions = [k \in 1..Len(new) |-> Len(tree) + k],
                              !.m = 1]
                        /\ pc' = "for_m"
       ELSE pc' = "abandon" /\ UNCHANGED <<tree, loc, ptc>>
    /\ UNCHANGED <<inputVars, isSetup, graphVars, edgeCostFactors, graphReady,
                   numMotions, lead, availDist, startRegions, goalRegions,
                   startsTaken, goalsTaken, paths, retval, calls>>

\* The comparison of line 149 dropped: the motion examined last is kept.
closerToGoalAlways(dist, goalDist) == TRUE

\* Line 168 dropped: the crossing is counted and the adjacency stays empty.
crossEdgeLeavesEmpty(a) == [a EXCEPT !.numSelections = @ + 1]

\* Line 149: whether a motion at distance dist is the best so far.
closerToGoal(dist, goalDist) == dist < goalDist

\* Lines 168-169: a motion has crossed the adjacency.
crossEdge(a) == [a EXCEPT !.empty = FALSE, !.numSelections = @ + 1]

\* The pair of lines 166-170 swapped: the adjacency from the new region back
\* to the selected one is the one marked and counted.
addMotionCrossesBack(motion, s) ==
    LET newRegion == s.region
        r1 == [regions[newRegion] EXCEPT !.motions = Append(@, motion)]
        cov == updateCoverageEstimate(r1, s)
        V1 == [regions EXCEPT ![newRegion] = cov.region]
        crosses == newRegion # loc.region
        isEdge == <<newRegion, loc.region>> \in DOMAIN regionsToEdge
        k == regionsToEdge[<<newRegion, loc.region>>]
        E1 == [adjs EXCEPT ![k] = crossEdge(@)]
        con == updateConnectionEstimate(edgeCostFactors, V1, E1, regionsToEdge,
                                        newRegion, loc.region, s)
    IN [V |-> V1,
        availDist |-> IF crosses /\ Len(cov.region.motions) = 1
                      THEN Append(availDist, [key |-> newRegion,
                                              weight |-> cov.region.weight])
                      ELSE availDist,
        E |-> IF crosses /\ isEdge THEN con.E ELSE adjs,
        improved |-> cov.improved \/ (crosses /\ isEdge /\ con.improved)]

\* Lines 154-173: a motion that does not satisfy the goal enters its region.
addMotion(motion, s) ==
    LET newRegion == s.region
        r1 == [regions[newRegion] EXCEPT !.motions = Append(@, motion)]
        cov == updateCoverageEstimate(r1, s)
        V1 == [regions EXCEPT ![newRegion] = cov.region]
        crosses == newRegion # loc.region
        isEdge == <<loc.region, newRegion>> \in DOMAIN regionsToEdge
        k == regionsToEdge[<<loc.region, newRegion>>]
        E1 == [adjs EXCEPT ![k] = crossEdge(@)]
        con == updateConnectionEstimate(edgeCostFactors, V1, E1, regionsToEdge,
                                        loc.region, newRegion, s)
    IN [V |-> V1,
        availDist |-> IF crosses /\ Len(cov.region.motions) = 1
                      THEN Append(availDist, [key |-> newRegion,
                                              weight |-> cov.region.weight])
                      ELSE availDist,
        E |-> IF crosses /\ isEdge THEN con.E ELSE adjs,
        improved |-> cov.improved \/ (crosses /\ isEdge /\ con.improved)]

\* Lines 136-174: one new motion.
forNewMotions ==
    /\ pc = "for_m"
    /\ IF loc.m <= Len(loc.newMotions)
       THEN \E b \in PtcPoll :
         /\ ptc' = b
         /\ IF b
            THEN /\ loc' = [loc EXCEPT !.j = @ + 1]
                 /\ pc' = "for_j"
                 /\ UNCHANGED <<regions, adjs, numMotions, availDist>>
            ELSE LET motion == loc.newMotions[loc.m]
                     s == tree[motion].state
                     seen == loc.examined \cup {motion}
                 IN IF s.sat
                    THEN /\ loc' = [loc EXCEPT !.solved = TRUE, !.goalDist = s.dist,
                                               !.solution = motion, !.examined = seen,
                                               !.j = @ + 1]
                         /\ pc' = "for_j"
                         /\ UNCHANGED <<regions, adjs, numMotions, availDist>>
                    ELSE LET closer == closerToGoal(s.dist, loc.goalDist)
                             added == addMotion(motion, s)
                         IN /\ regions' = added.V
                            /\ numMotions' = numMotions + 1
                            /\ availDist' = added.availDist
                            /\ adjs' = added.E
                            /\ loc' = [loc EXCEPT
                                  !.goalDist = IF closer THEN s.dist ELSE @,
                                  !.solution = IF closer THEN motion ELSE @,
                                  !.examined = seen,
                                  !.improved = @ \/ added.improved,
                                  !.m = @ + 1]
                            /\ pc' = "for_m"
       ELSE /\ loc' = [loc EXCEPT !.j = @ + 1]
            /\ pc' = "for_j"
            /\ UNCHANGED <<regions, adjs, numMotions, availDist, ptc>>
    /\ UNCHANGED <<inputVars, isSetup, regionsToEdge, edgeCostFactors, graphReady,
                   lead, startRegions, goalRegions, tree, startsTaken, goalsTaken,
                   paths, retval, calls>>

\* The test of improved dropped from line 176: the draw alone decides.
abandonLeadEarlyWhateverImproved ==
    /\ pc = "abandon"
    /\ \E u \in Uniform01 :
          IF u < PROB_ABANDON_LEAD_EARLY
          THEN pc' = "while" /\ UNCHANGED loc
          ELSE pc' = "for_i" /\ loc' = [loc EXCEPT !.i = @ + 1]
    /\ UNCHANGED <<inputVars, isSetup, graphVars, edgeCostFactors, graphReady,
                   numMotions, lead, availDist, startRegions, goalRegions, tree,
                   startsTaken, goalsTaken, ptc, paths, retval, calls>>

\* Line 176.
abandonLeadEarly ==
    /\ pc = "abandon"
    /\ \E u \in Uniform01 :
          IF ~loc.improved /\ u < PROB_ABANDON_LEAD_EARLY
          THEN pc' = "while" /\ UNCHANGED loc
          ELSE pc' = "for_i" /\ loc' = [loc EXCEPT !.i = @ + 1]
    /\ UNCHANGED <<inputVars, isSetup, graphVars, edgeCostFactors, graphReady,
                   numMotions, lead, availDist, startRegions, goalRegions, tree,
                   startsTaken, goalsTaken, ptc, paths, retval, calls>>

\* mpath reversed: the motions from the root to `motion`.
RECURSIVE PathTo(_)
PathTo(motion) ==
    IF motion = NoMotion THEN <<>>
    ELSE Append(PathTo(tree[motion].parent), motion)

\* Lines 180-198.
addSolution ==
    /\ pc = "result"
    /\ IF loc.solution # NoMotion
       THEN /\ paths' = Append(paths, [path |-> PathTo(loc.solution),
                                       approximate |-> ~loc.solved,
                                       distance |-> loc.goalDist])
            /\ retval' = TRUE
       ELSE /\ retval' = FALSE
            /\ UNCHANGED paths
    /\ pc' = "idle"
    /\ UNCHANGED <<inputVars, isSetup, graphVars, edgeCostFactors, graphReady,
                   numMotions, lead, availDist, startRegions, goalRegions, tree,
                   startsTaken, goalsTaken, ptc, loc, calls>>

Next ==
    \/ addStartState
    \/ addGoalState
    \/ setup
    \/ clear
    \/ addEdgeCostFactor
    \/ clearEdgeCostFactors
    \/ solve
    \/ whileLoop
    \/ availStep
    \/ forRegionExpansions
    \/ forTreeSelections
    \/ forNewMotions
    \/ abandonLeadEarly
    \/ addSolution

Spec == Init /\ [][Next]_vars

\* The steps of solve: sequential code, which runs on until it returns.
SolveSteps ==
    \/ whileLoop
    \/ availStep
    \/ forRegionExpansions
    \/ forTreeSelections
    \/ forNewMotions
    \/ abandonLeadEarly
    \/ addSolution

\* One solve that is cancelled at any of its polls: two region expansions of
\* two tree selections each, so that every poll of lines 109-136 is met with
\* the termination condition already true.
Cancelled ==
    [solves |-> 1, setups |-> 1, clears |-> 0, failed |-> 0, factors |-> 0,
     motions |-> MaxMotions, starts |-> 1, goals |-> 1, leads |-> 1,
     numRegionExpansions |-> MaxRegionExpansions,
     numTreeSelections |-> MaxTreeSelections + 1,
     numFreeVolSamples |-> 0]

InitFair == Constructed(Cancelled)

NextFair ==
    \/ addStartState
    \/ addGoalState
    \/ setup
    \/ solve
    \/ SolveSteps

\* The thread that runs solve keeps running: once the termination condition
\* is true, the step solve is at is taken.
SpecFair == InitFair /\ [][NextFair]_vars /\ WF_vars(ptc /\ SolveSteps)

(***************************************************************************)
(* computeAvailableRegions on its own: every lead over AvailLeadLen        *)
(* regions, every choice of the regions that hold motions, and the         *)
(* probabilities 0, 0.95 and 1.                                            *)
(***************************************************************************)
AvailLeadLen == 4
AvailRegions == 0..(AvailLeadLen - 1)
AvailLeads == UNION {Perms(S) : S \in (SUBSET AvailRegions) \ {{}}}
AvailProbs == {0, PROB_KEEP_ADDING_TO_AVAIL, 100}

InitAvail ==
    /\ neighbors = ChainNeighbors
    /\ isSetup = TRUE
    /\ \E holders \in SUBSET AvailRegions :
          regions = [v \in AvailRegions |->
                        updateRegion([initRegion(v) EXCEPT
                            !.motions = IF v \in holders THEN <<v + 1>> ELSE <<>>])]
    /\ adjs = <<>>
    /\ regionsToEdge = Empty
    /\ edgeCostFactors = <<"default">>
    /\ graphReady = TRUE
    /\ numMotions = 0
    /\ lead \in AvailLeads
    /\ availDist = <<>>
    /\ startRegions = {}
    /\ goalRegions = {}
    /\ probKeepAddingToAvail \in AvailProbs
    /\ tree = <<>>
    /\ pdefStarts = <<>>
    /\ startsTaken = 0
    /\ pdefGoals = 0
    /\ goalsTaken = 0
    /\ ptc = FALSE
    /\ loc = NoLocals
    /\ paths = <<>>
    /\ retval = FALSE
    /\ limits = InDepth
    /\ calls = [setup |-> 1, solve |-> 1, failed |-> 0, clear |-> 0, leads |-> 1]
    /\ pc = "avail"
    /\ css = NoSpace
    /\ interp = NoCall

NextAvail == availStep

SpecAvail == InitAvail /\ [][NextAvail]_vars

(***************************************************************************)
(* The claims.                                                             *)
(***************************************************************************)
InLoop == pc \in {"avail", "for_i", "for_j", "for_m", "abandon"}

ValidLead ==
    /\ lead # <<>>
    /\ lead[1] = loc.chosenStartRegion
    /\ lead[1] \in startRegions
    /\ lead[Len(lead)] = loc.chosenGoalRegion
    /\ lead[Len(lead)] \in goalRegions
    /\ \A i \in 1..(Len(lead) - 1) : <<lead[i], lead[i + 1]>> \in DOMAIN regionsToEdge

\* C1: after every computeLead call made by solve, lead is a path of the
\* graph from the chosen start region (one of startRegions) to the chosen
\* goal region (one of goalRegions): consecutive regions are keys of
\* regionsToEdge.  The states right after computeLead are "avail" and, when
\* its loop over the lead's edges runs on an empty lead, "crashed in
\* computeLead".
C1_LeadIsValidPath ==
    (pc \in {"avail", "crashed in computeLead"}) => ValidLead

\* C2, as amended: every key of availDist is a region whose motions list is
\* not empty.
C2_AvailableRegionsHaveMotions ==
    \A k \in Keys(availDist) : k \in DOMAIN regions /\ regions[k].motions # <<>>

\* C2, as stated: every key of availDist has motions and is on the lead.
C2_AvailableRegionsOnLead ==
    \A k \in Keys(availDist) : regions[k].motions # <<>> /\ k \in Range(lead)

\* C2's case: a motion has entered a region off the lead, which is available.
C2_RegionOffLeadAvailable ==
    /\ pc = "for_m"
    /\ \E k \in Keys(availDist) : k \notin Range(lead) /\ regions[k].motions # <<>>

RECURSIVE SumOfMotions(_, _)
SumOfMotions(V, S) ==
    IF S = {} THEN 0
    ELSE LET v == CHOOSE x \in S : TRUE
         IN Len(V[v].motions) + SumOfMotions(V, S \ {v})

\* C3: between two iterations of solve's loops and when solve has returned,
\* every motion of the low-level tree is in the motions list of the region
\* its state lies in and in no other, and the sizes of the lists add up to
\* the size of the tree.
C3_EveryMotionInItsRegion ==
    (pc \in {"idle", "while", "result"}) =>
        /\ \A mo \in DOMAIN tree : \A v \in DOMAIN regions :
              (mo \in Range(regions[v].motions)) <=> (v = tree[mo].state.region)
        /\ SumOfMotions(regions, DOMAIN regions) = Len(tree)

\* C4: an adjacency that is empty has numSelections = 0, in every state.
C4_EmptyAdjacencyNeverSelected ==
    \A k \in DOMAIN adjs : adjs[k].empty => adjs[k].numSelections = 0

\* C4's case: a motion has crossed one adjacency, and another is still empty.
C4_AdjacencyCrossed ==
    /\ pc = "for_m"
    /\ \E k \in DOMAIN adjs : ~adjs[k].empty /\ adjs[k].numSelections > 0
    /\ \E k \in DOMAIN adjs : adjs[k].empty

\* C5: selectRegion never samples an empty availDist: the distribution is not
\* empty from computeAvailableRegions to the end of the lead's expansion.
C5_AvailDistNotEmptyWhenSampled ==
    /\ pc # "crashed in selectRegion"
    /\ (pc \in {"for_i", "for_j", "for_m", "abandon"}) => availDist # <<>>

\* C5's case: selectRegion has sampled a region of availDist.
C5_RegionSelected ==
    /\ pc = "for_j"
    /\ loc.region \in Keys(availDist)
    /\ regions[loc.region].numSelections > 0

KeysInOrder(dist) == [k \in DOMAIN dist |-> dist[k].key]
HoldersOnLead == {i \in DOMAIN lead : regions[lead[i]].motions # <<>>}
LastOf(S) == CHOOSE i \in S : \A j \in S : j <= i

\* C6: after computeAvailableRegions the keys of availDist are regions of the
\* lead that hold motions; the one of them with the largest lead index is
\* the first key, whatever the probability and the RNG draws; a region
\* without motions rolls nothing, so all holders are keys at probability 1
\* and the last holder is the only key at probability 0; the lead [0,1,2,3]
\* with motions in 0 and 2 gives [2,0] at probability 1 and [2] at 0.
C6_ClosestHolderAvailable ==
    (pc = "for_i") =>
        /\ \A k \in Keys(availDist) :
              k \in Range(lead) /\ regions[k].motions # <<>>
        /\ HoldersOnLead # {} =>
              /\ availDist # <<>>
              /\ availDist[1].key = lead[LastOf(HoldersOnLead)]
        /\ HoldersOnLead = {} => availDist = <<>>
        /\ probKeepAddingToAvail = 100 =>
              Keys(availDist) = {lead[i] : i \in HoldersOnLead}
        /\ probKeepAddingToAvail = 0 => Len(availDist) <= 1
        /\ (lead = <<0, 1, 2, 3>> /\ {lead[i] : i \in HoldersOnLead} = {0, 2}) =>
              /\ probKeepAddingToAvail = 100 => KeysInOrder(availDist) = <<2, 0>>
              /\ probKeepAddingToAvail = 0 => KeysInOrder(availDist) = <<2>>

\* C6's case: the walk over [0,1,2,3] with motions in 0 and 2, at probability 1.
C6_ExampleWalked ==
    /\ pc = "for_i"
    /\ lead = <<0, 1, 2, 3>>
    /\ {lead[i] : i \in HoldersOnLead} = {0, 2}
    /\ probKeepAddingToAvail = 100
    /\ KeysInOrder(availDist) = <<2, 0>>

One == RInt(1)

\* C7, as amended: clearEdgeCostFactors leaves no factor registered, the
\* default one included, and while none is registered every cost updateEdge
\* writes is 1, the empty product.
C7_ClearRemovesEveryFactor ==
    [][/\ clearEdgeCostFactors => edgeCostFactors' = <<>>
       /\ (edgeCostFactors = <<>> /\ edgeCostFactors' = <<>> /\ isSetup) =>
             \A k \in (DOMAIN adjs) \cap (DOMAIN adjs') :
                 adjs'[k].cost # adjs[k].cost => adjs'[k].cost = One]_vars

\* C7, as stated: after setup, addEdgeCostFactor and then clearEdgeCostFactors
\* leave the factors as setup left them: the default factor alone.
C7_ClearRestoresDefault ==
    [][(clearEdgeCostFactors /\ isSetup /\ edgeCostFactors = <<"default", "user">>)
          => edgeCostFactors' = <<"default">>]_vars

\* C7's case: the factors were cleared after setup, and a solve has since
\* had setupEdgeEstimates update every edge.
C7_EdgesUpdatedWithoutFactors ==
    /\ isSetup
    /\ edgeCostFactors = <<>>
    /\ pc = "avail"
    /\ adjs # <<>>
    /\ \A k \in DOMAIN adjs : adjs[k].cost = One

\* C8: when solve enters its loop after clear() and setup() on an instance
\* set up before, the graph is that of a fresh instance: a vertex per region
\* of the decomposition, an adjacency and a key of regionsToEdge per region
\* and neighbour, and the default factor alone.
C8_SetupAfterClearAsFresh ==
    (calls.clear > 0 /\ calls.setup > 1 /\ pc = "while") =>
        /\ NumVertices(regions) = NumRegions
        /\ Len(adjs) = Len(NeighborPairs(0, NumRegions))
        /\ DOMAIN regionsToEdge = Range(NeighborPairs(0, NumRegions))
        /\ edgeCostFactors = <<"default">>

LeastDist(ms) ==
    CHOOSE d \in {tree[mo].state.dist : mo \in ms} :
        \A mo \in ms : d <= tree[mo].state.dist

IsParentChain(path) ==
    /\ path # <<>>
    /\ tree[path[1]].parent = NoMotion
    /\ \A k \in 2..Len(path) : tree[path[k]].parent = path[k - 1]

\* C9: a solve that has examined a new motion adds one path and returns
\* true; the path is the chain of parents from a root to its last motion; if
\* an examined motion satisfies the goal the path ends at it and is exact;
\* otherwise it is approximate, ends at a motion at the least distance of
\* all examined motions, and reports that distance.
C9_SolutionPath ==
    [][(addSolution /\ loc.examined # {}) =>
          /\ retval' = TRUE
          /\ Len(paths') = Len(paths) + 1
          /\ LET added == paths'[Len(paths')]
                 last == added.path[Len(added.path)]
             IN /\ IsParentChain(added.path)
                /\ last \in loc.examined
                /\ IF \E mo \in loc.examined : tree[mo].state.sat
                   THEN tree[last].state.sat /\ ~added.approximate
                   ELSE /\ added.approximate
                        /\ tree[last].state.dist = LeastDist(loc.examined)
                        /\ added.distance = LeastDist(loc.examined)]_vars

\* C9's case: solve has returned an approximate path after examining two
\* motions, the second closer to the goal than the first.
C9_ApproximatePathAdded ==
    /\ pc = "idle"
    /\ paths # <<>>
    /\ paths[Len(paths)].approximate
    /\ Cardinality(loc.examined) > 1
    /\ \E m1, m2 \in loc.examined :
          m1 < m2 /\ tree[m2].state.dist < tree[m1].state.dist

NoStartState == startsTaken = Len(pdefStarts) /\ startRegions = {}
NoGoalState == goalRegions = {} /\ goalsTaken = pdefGoals

\* C10: a solve called with no start state to take and no start region, or
\* with no goal region and no goal state to take, returns false at once: no
\* path is added, no lead is computed, no region is selected, the tree does
\* not grow; and the main loop is only ever entered with start and goal
\* regions.  (A solve after a second setup may die before in
\* setupEdgeEstimates: it returns nothing.)
C10_SolveWithoutStatesFails ==
    [][/\ (solve /\ (NoStartState \/ NoGoalState) /\ ~Crashed') =>
             /\ pc' = "idle"
             /\ retval' = FALSE
             /\ paths' = paths
             /\ lead' = lead
             /\ availDist' = availDist
             /\ calls'.leads = calls.leads
             /\ \A v \in DOMAIN regions :
                   regions'[v].numSelections = regions[v].numSelections
             /\ \A mo \in (DOMAIN tree') \ (DOMAIN tree) : tree'[mo].parent = NoMotion
       /\ (pc' \in {"while", "result"} \/ InLoop') =>
             (startRegions' # {} /\ goalRegions' # {})]_vars

\* C10's case: after a solve that failed for want of states, a later solve
\* has entered the main loop.
C10_LaterSolveProceeds ==
    /\ calls.failed > 0
    /\ pc = "for_j"

InSolve == InLoop \/ pc \in {"while", "result"}

\* C11: a step of solve at whose poll ptc() is true (or was true before)
\* computes no lead, selects no region and extends no tree; and once ptc()
\* is true inside solve, solve returns.
C11_CancellationStopsExpansion ==
    /\ [][(InSolve /\ ptc') =>
             /\ tree' = tree
             /\ lead' = lead
             /\ calls'.leads = calls.leads
             /\ \A v \in DOMAIN regions :
                   regions'[v].numSelections = regions[v].numSelections
             /\ pc' \in {"while", "for_j", "abandon", "for_i", "result", "idle"}]_vars
    /\ (InSolve /\ ptc) ~> (pc = "idle")

\* C11's case: ptc() has turned true at the poll before a new motion, with
\* the motions of the selectAndExtend in progress in the tree.
C11_CancelledInBatch ==
    /\ pc = "for_j"
    /\ ptc
    /\ loc.newMotions # <<>>
    /\ loc.m <= Len(loc.newMotions)

\* A step that is a call of solve that got past the estimates, and a step
\* that is a call of clear.
SolveCalled ==
    pc = "idle" /\ (calls'.solve # calls.solve \/ calls'.failed # calls.failed)
ClearCalled == calls'.clear # calls.clear

IsPrefix(s, t) == Len(s) <= Len(t) /\ \A k \in 1..Len(s) : s[k] = t[k]

\* The motions of the roots seeded by the solve that is being called.
NewRoots == (Len(tree) + 1)..Len(tree')

\* C12: a solve called while graphReady_ holds (a solve after a solve, no
\* clear in between) does not run the estimates again: no adjacency changes,
\* and every region keeps its numSelections, its coverage cells and its
\* motions, to which the solve adds only the roots of start states it had not
\* taken yet (nothing changes when there is none); numMotions_ is not reset.
\* A call of clear leaves lead, availDist, startRegions and goalRegions empty
\* and graphReady_ false, and the solve called next initializes the estimates
\* before it seeds: every adjacency is empty with no selection and no lead
\* inclusion, and every region has its alpha and weight recomputed and holds
\* the roots seeded by that solve and nothing else.
C12_SolveContinuesUnlessCleared ==
    /\ [][(SolveCalled /\ graphReady) =>
            /\ adjs' = adjs
            /\ graphReady'
            /\ numMotions' = numMotions + Cardinality(NewRoots)
            /\ \A v \in DOMAIN regions :
                  /\ regions'[v].numSelections = regions[v].numSelections
                  /\ regions[v].covGridCells \subseteq regions'[v].covGridCells
                  /\ IsPrefix(regions[v].motions, regions'[v].motions)
                  /\ Range(regions'[v].motions) \subseteq
                        Range(regions[v].motions) \cup NewRoots
            /\ (startsTaken = Len(pdefStarts)) => regions' = regions]_vars
    /\ [][ClearCalled =>
            /\ lead' = <<>>
            /\ availDist' = <<>>
            /\ startRegions' = {}
            /\ goalRegions' = {}
            /\ ~graphReady']_vars
    /\ [][(SolveCalled /\ ~graphReady) =>
            /\ graphReady'
            /\ numMotions' = Cardinality(NewRoots)
            /\ \A k \in DOMAIN adjs' :
                  /\ adjs'[k].empty
                  /\ adjs'[k].numSelections = 0
                  /\ adjs'[k].numLeadInclusions = 0
                  /\ adjs'[k].covGridCells = {}
            /\ \A v \in DecompRegions :
                  /\ regions'[v].alpha = updateRegion(regions'[v]).alpha
                  /\ regions'[v].weight = updateRegion(regions'[v]).weight
                  /\ Range(regions'[v].motions) \subseteq NewRoots
                  /\ regions'[v].covGridCells =
                        {tree'[m].state.cell : m \in Range(regions'[v].motions)}]_vars

\* The second solve has started on what the first one left: a region was
\* selected and an adjacency crossed, and clear was never called.
C12_SecondSolveOnPriorEstimates ==
    /\ pc = "while"
    /\ calls.solve = 2
    /\ calls.clear = 0
    /\ \E v \in DOMAIN regions : regions[v].numSelections > 0
    /\ \E k \in DOMAIN adjs : ~adjs[k].empty

\* A step in which solve calls computeLead (line 126).
ComputeLeadCalled == pc = "while" /\ calls'.leads = calls.leads + 1

\* C13: computeLead called with the start region equal to the goal region
\* leaves the one-element lead <<startRegion>>, whatever the RNG would draw
\* (no search branch is entered, so none of the undefined behaviour of the
\* searches can happen and solve goes on to computeAvailableRegions), and no
\* adjacency is changed: numLeadInclusions and cost are as before.
C13_SameRegionLeadIsSingleton ==
    [][(ComputeLeadCalled /\ loc'.chosenStartRegion = loc'.chosenGoalRegion) =>
          /\ lead' = <<loc'.chosenStartRegion>>
          /\ pc' = "avail"
          /\ \A u \in Uniform01 :
                /\ Leads(adjs, loc'.chosenStartRegion, loc'.chosenGoalRegion, u)
                      = {<<loc'.chosenStartRegion>>}
                /\ ~astarUndefined(regions, loc'.chosenStartRegion,
                                   loc'.chosenGoalRegion, u)
          /\ \A k \in DOMAIN adjs :
                /\ adjs'[k].numLeadInclusions = adjs[k].numLeadInclusions
                /\ adjs'[k].cost = adjs[k].cost
          /\ adjs' = adjs
          /\ regionsToEdge' = regionsToEdge]_vars

\* computeLead has returned a lead for a start region that is the goal region.
C13_SingletonLeadComputed ==
    /\ pc = "avail"
    /\ loc.chosenStartRegion = loc.chosenGoalRegion
    /\ lead = <<loc.chosenStartRegion>>

\* The adjacencies regionsToEdge_ gives for the consecutive pairs of a lead.
LeadEdges(ld) == {regionsToEdge[<<ld[i], ld[i + 1]>>] : i \in 1..(Len(ld) - 1)}

\* C14: when computeLead returns a lead for a start region other than the
\* goal region, every adjacency of a consecutive pair of the lead that was
\* empty has numLeadInclusions one higher and the cost updateEdge gives it
\* then, and nothing else of it changes; every other adjacency (one of the
\* lead that is not empty, one that is not of the lead, the reverse of one of
\* the lead) is as it was.
C14_LeadCountsItsEmptyEdges ==
    [][(ComputeLeadCalled /\ pc' = "avail"
            /\ loc'.chosenStartRegion # loc'.chosenGoalRegion) =>
          /\ \A k \in DOMAIN adjs :
                IF k \in LeadEdges(lead') /\ adjs[k].empty
                THEN /\ adjs'[k].numLeadInclusions = adjs[k].numLeadInclusions + 1
                     /\ adjs'[k] = updateEdge(edgeCostFactors, regions, adjs',
                                       regionsToEdge,
                                       [adjs[k] EXCEPT !.numLeadInclusions = @ + 1])
                ELSE adjs'[k] = adjs[k]
          /\ \A i \in 1..(Len(lead') - 1) :
                LET back == <<lead'[i + 1], lead'[i]>>
                IN back \in DOMAIN regionsToEdge =>
                      adjs'[regionsToEdge[back]] = adjs[regionsToEdge[back]]
          /\ DOMAIN adjs' = DOMAIN adjs]_vars

\* A lead of two edges has been computed: one that a motion had crossed
\* before and that was left alone, one still empty that was counted again.
C14_LeadOverCrossedAndEmptyEdge ==
    /\ pc = "avail"
    /\ Len(lead) = 3
    /\ \E k \in LeadEdges(lead) : ~adjs[k].empty /\ adjs[k].numLeadInclusions = 1
    /\ \E k \in LeadEdges(lead) : adjs[k].empty /\ adjs[k].numLeadInclusions = 2

\* A step in which solve takes in a new motion that does not satisfy the goal
\* (lines 154-173), the region the motion lies in, and the pair of the
\* selected region and that region.
MotionAdded == pc = "for_m" /\ numMotions' = numMotions + 1
NewRegion == tree[loc.newMotions[loc.m]].state.region
Crossing == <<loc.region, NewRegion>>

\* C15: a new motion in a region other than the selected one that is not a
\* neighbour of the selected one changes no adjacency, and regionsToEdge_
\* gains no entry.  When the new region is a neighbour, the adjacency from
\* the selected region to the new one is no longer empty and has
\* numSelections one higher; its reverse and every other adjacency are as
\* they were, and regionsToEdge_ is as it was.
C15_OnlyNeighbourCrossingsCounted ==
    [][(MotionAdded /\ NewRegion # loc.region) =>
          /\ regionsToEdge' = regionsToEdge
          /\ IF Crossing \notin DOMAIN regionsToEdge
             THEN adjs' = adjs
             ELSE LET k == regionsToEdge[Crossing]
                      back == <<NewRegion, loc.region>>
                  IN /\ ~adjs'[k].empty
                     /\ adjs'[k].numSelections = adjs[k].numSelections + 1
                     /\ adjs'[k].numLeadInclusions = adjs[k].numLeadInclusions
                     /\ DOMAIN adjs' = DOMAIN adjs
                     /\ \A l \in DOMAIN adjs : l # k => adjs'[l] = adjs[l]
                     /\ back \in DOMAIN regionsToEdge =>
                           adjs'[regionsToEdge[back]] = adjs[regionsToEdge[back]]]_vars

\* The motion taken in last lies in a region that is not a neighbour of the
\* selected region.
C15_CrossedToNonNeighbour ==
    /\ pc = "for_m"
    /\ loc.m = 2
    /\ LET motion == loc.newMotions[1]
           newRegion == tree[motion].state.region
       IN /\ newRegion # loc.region
          /\ <<loc.region, newRegion>> \notin DOMAIN regionsToEdge
          /\ motion \in Range(regions[newRegion].motions)

\* A step that leaves the region-expansion loop (lines 128-178) for the head
\* of the main loop, and the region selections the loop has made by then.
ExpansionsLeft == pc \in {"for_i", "abandon"} /\ pc' = "while"
Selections == IF pc = "abandon" THEN loc.i + 1 ELSE loc.i

\* C16: the region-expansion loop is left after fewer than
\* numRegionExpansions_ selections only when a solution was found, the
\* termination condition was polled true, or the round of tree selections
\* just made has improved = false and line 176 draws the abandon (the draw is
\* below probAbandonLeadEarly_: some draw is and some is not).  After a round
\* with improved = true the loop goes on to its next iteration.  improved is
\* false when a region is selected and becomes true only when a new motion is
\* taken in, and then exactly when updateCoverageEstimate or
\* updateConnectionEstimate added a cell: a round in which selectAndExtend
\* produced no motion is not improved.
C16_EarlyAbandonOnlyWithoutImprovement ==
    /\ [][(ExpansionsLeft /\ Selections < limits.numRegionExpansions) =>
             \/ loc.solved
             \/ ptc'
             \/ pc = "abandon" /\ ~loc.improved]_vars
    /\ [][(pc = "abandon" /\ loc.improved) =>
             pc' = "for_i" /\ loc'.i = loc.i + 1]_vars
    /\ [][(pc = "for_i" /\ pc' = "for_j") => ~loc'.improved]_vars
    /\ [][(InLoop /\ loc'.improved /\ ~loc.improved) => MotionAdded]_vars
    /\ [][MotionAdded =>
             (loc'.improved <=>
                 \/ loc.improved
                 \/ \E v \in DOMAIN regions :
                       regions'[v].covGridCells # regions[v].covGridCells
                 \/ \E k \in DOMAIN adjs :
                       adjs'[k].covGridCells # adjs[k].covGridCells)]_vars
    /\ [][(pc = "for_j" /\ pc' = "for_m" /\ loc'.newMotions = <<>>) =>
             loc'.improved = loc.improved]_vars
    /\ [][(pc = "for_m" /\ loc.newMotions = <<>>) =>
             loc'.improved = loc.improved /\ pc' = "for_j"]_vars

\* A lead was abandoned after its first region selection, whose round added
\* no cell: back at the head of the main loop, not solved and not cancelled,
\* with a region expansion not made.
C16_LeadAbandonedEarly ==
    /\ pc = "while"
    /\ loc.region # NoRegion
    /\ loc.i + 1 < limits.numRegionExpansions
    /\ ~loc.improved
    /\ ~loc.solved
    /\ ~ptc

\* A step in which computeLead is called for a goal region that no path of
\* the decomposition graph reaches from the start region: whichever branch
\* the RNG selects, the search finds nothing.
ComputeLeadFails ==
    /\ ComputeLeadCalled
    /\ loc'.chosenStartRegion # loc'.chosenGoalRegion
    /\ PathsFrom(adjs, <<loc'.chosenStartRegion>>, loc'.chosenGoalRegion) = {}

\* C17 as stated: when the search of computeLead finds no path, the lead is
\* the lead the prior iteration left.
C17_FailedSearchKeepsPriorLead == [][ComputeLeadFails => lead' = lead]_vars

\* C17: when the search of computeLead finds no path, the lead is empty:
\* computeLead clears lead_ before it searches (line 352) and a search that
\* fails writes nothing to it, so the lead of the prior iteration is lost.
C17_FailedSearchLeavesEmptyLead == [][ComputeLeadFails => lead' = <<>>]_vars

\* The search has failed in an iteration after one that had computed a lead.
C17_PriorLeadLost ==
    /\ pc = "crashed in computeLead"
    /\ lead = <<>>
    /\ calls.leads = 2

\* C18 as stated: a call of computeLead that cannot produce a lead is not
\* fatal: its lead-edge loop reads no element of the empty lead and touches
\* no adjacency and no entry of regionsToEdge_, and solve goes on with the
\* iteration (computeAvailableRegions, line 127).
C18_FailedLeadIsNotFatal ==
    [][ComputeLeadFails =>
          /\ pc' = "avail"
          /\ adjs' = adjs
          /\ regionsToEdge' = regionsToEdge]_vars

\* The state of the motion solve is taking in.
NewState == tree[loc.newMotions[loc.m]].state

\* C19: in every call solve makes of updateCoverageEstimate(r, s) for a new
\* motion (line 158), the call returns true exactly when the coverage cell of
\* s was not in r.covGridCells; then the set has grown by that cell alone and
\* alpha and weight are what updateRegion computes from the new set; when the
\* cell was there the region is as it was (but for the motion line 155 has
\* pushed).  A second call with the same state returns false.  The call of
\* updateConnectionEstimate (line 170) does the same with the covGridCells
\* and the cost of the adjacency from the selected region to the new one.
\* What the calls return is read from improved, which is their disjunction.
C19_EstimatesGrowByNewCellsOnly ==
    [][MotionAdded =>
        LET s == NewState
            r == regions[s.region]
            r1 == regions'[s.region]
            newCell == s.cell \notin r.covGridCells
            edge == s.region # loc.region /\ Crossing \in DOMAIN regionsToEdge
            k == regionsToEdge[Crossing]
            newEdgeCell == edge /\ s.cell \notin adjs[k].covGridCells
        IN /\ r1.covGridCells = r.covGridCells \cup {s.cell}
           /\ newCell => r1.alpha = updateRegion(r1).alpha
                         /\ r1.weight = updateRegion(r1).weight
           /\ ~newCell =>
                 r1 = [r EXCEPT !.motions = Append(@, loc.newMotions[loc.m])]
           /\ \A f \in {"index", "numSelections", "volume", "percentValidCells",
                        "freeVolume"} : r1[f] = r[f]
           /\ ~updateCoverageEstimate(r1, s).improved
           /\ edge =>
                 /\ adjs'[k].covGridCells = adjs[k].covGridCells \cup {s.cell}
                 /\ IF newEdgeCell
                    THEN adjs'[k].cost =
                            updateEdge(edgeCostFactors, regions', adjs',
                                       regionsToEdge, adjs'[k]).cost
                    ELSE adjs'[k].cost = adjs[k].cost
                 /\ ~updateConnectionEstimate(edgeCostFactors, regions', adjs',
                        regionsToEdge, loc.region, s.region, s).improved
           /\ loc'.improved <=> (loc.improved \/ newCell \/ newEdgeCell)]_vars

\* Both cases have happened: a region holds two motions in one coverage cell
\* (the second call found the cell there) and a region that had no root has
\* a motion (the call for it added the cell).
C19_NewAndRepeatedCell ==
    /\ \E v \in DOMAIN regions :
          Len(regions[v].motions) >= 2 /\ Cardinality(regions[v].covGridCells) = 1
    /\ \E w \in DOMAIN regions \ startRegions :
          regions[w].motions # <<>> /\ Cardinality(regions[w].covGridCells) = 1

\* The ordered pairs of a region and one of its neighbours.
DecompEdges == {<<u, v>> \in DecompRegions \X DecompRegions : v \in neighbors[u]}

\* C20 as stated: once setup has run, regionsToEdge_ has an entry for the
\* ordered pair (u, v) exactly when v is a neighbour of u in the
\* decomposition, and no entry is null: no lookup of solve, computeLead or
\* defaultEdgeCost has inserted one and clear has removed none.
C20_EdgeMapIsTheDecomposition ==
    isSetup =>
        /\ DOMAIN regionsToEdge = DecompEdges
        /\ \A p \in DOMAIN regionsToEdge : regionsToEdge[p] \in DOMAIN adjs

\* Whether alpha and weight of a region are the scalars of its fields:
\* alpha * c * f = 1 and weight * c * (1 + s^2) = f, for f = freeVolume^4,
\* c = 1 + |covGridCells| and s = numSelections.
DerivedScalarsConsistent(r) ==
    LET f == RMul(RMul(r.freeVolume, r.freeVolume), RMul(r.freeVolume, r.freeVolume))
        c == 1 + Cardinality(r.covGridCells)
        s == r.numSelections
    IN /\ RMul(r.alpha, RMul(RInt(c), f)) = RInt(1)
       /\ RMul(r.weight, RInt(c * (1 + s * s))) = f

\* C21: at every point of solve after setupRegionEstimates, alpha and weight
\* of every region of the decomposition are the scalars of its current
\* freeVolume, covGridCells and numSelections.  selectRegion raises the
\* numSelections of the region it picks by exactly 1 and of no other region,
\* and no other step of solve changes a numSelections.
C21_DerivedScalarsFollowFields ==
    /\ []((InSolve /\ graphReady) =>
             \A v \in DecompRegions : DerivedScalarsConsistent(regions[v]))
    /\ [][(pc = "for_i" /\ pc' = "for_j") =>
             \A v \in DOMAIN regions :
                regions'[v].numSelections =
                   regions[v].numSelections + (IF v = loc'.region THEN 1 ELSE 0)]_vars
    /\ [][(InSolve /\ ~(pc = "for_i" /\ pc' = "for_j")) =>
             \A v \in DOMAIN regions :
                regions'[v].numSelections = regions[v].numSelections]_vars

\* A region that was selected twice and holds a coverage cell, inside solve.
C21_RegionSelectedTwice ==
    /\ InSolve
    /\ \E v \in DecompRegions :
          /\ regions[v].numSelections = 2
          /\ regions[v].covGridCells # {}
          /\ regions[v].weight = <<1, 10>>

\* The product of the registered factors on the current state, for the
\* adjacency at position k, and the adjacencies regionsToEdge_ points to.
CurrentCost(k) ==
    updateEdge(edgeCostFactors, regions, adjs, regionsToEdge, adjs[k]).cost
MappedEdges == {regionsToEdge[p] : p \in DOMAIN regionsToEdge} \ {0}

\* C22 as stated: after every computeLead and after every motion solve has
\* taken in, the cost of every adjacency is the product of the registered
\* factors evaluated on the current state.
C22_CostsAreCurrent ==
    (pc \in {"avail", "for_m"} /\ graphReady) =>
        \A k \in MappedEdges : adjs[k].cost = CurrentCost(k)

(***************************************************************************)
(* ConstrainedStateSpace (ConstrainedStateSpace.cpp).                      *)
(*                                                                         *)
(* The states of a geodesic are points of a line and distance() is the     *)
(* distance between two points.  The interpolation parameter t is a        *)
(* multiple of 1/TSteps and is held as its numerator, so d[i] / last <= t  *)
(* is d[i] * TSteps <= t * last: the quotients are compared exactly.       *)
(* Indices are the code's, from 0; geodesic[i] of the code is At(.., i).   *)
(***************************************************************************)
MaxGeodesic == 3    \* states in a geodesic
MaxPoint == 1       \* points a state can be: 0..MaxPoint
TSteps == 4         \* t is one of 0, 1/TSteps, ..., 1
MaxDelta == 2       \* values of delta above 0

Points == 0 .. MaxPoint
Geodesics == UNION {[1 .. n -> Points] : n \in 1 .. MaxGeodesic}
Ts == 0 .. TSteps
Deltas == -1 .. MaxDelta
CONSTRAINED_STATE_SPACE_DELTA == 1

At(geodesic, i) == geodesic[i + 1]

distance(a, b) == IF a < b THEN b - a ELSE a - b

\* d[i] of lines 250-252.
RECURSIVE PartialSum(_, _)
PartialSum(geodesic, i) ==
    IF i = 0 THEN 0
    ELSE PartialSum(geodesic, i - 1) + distance(At(geodesic, i - 1), At(geodesic, i))

\* The loop of lines 261-263: the index it stops at.
RECURSIVE WhileFractionAtMost(_, _, _, _)
WhileFractionAtMost(d, n, t, i) ==
    IF i < n - 1 /\ d[i] * TSteps <= t * d[n - 1]
    THEN WhileFractionAtMost(d, n, t, i + 1)
    ELSE i

\* The index of the state geodesicInterpolate returns.  t1 and t2 are the
\* code's, both multiplied by last * TSteps.
geodesicInterpolate(geodesic, t) ==
    LET n == Len(geodesic)
        d == [i \in 0 .. n - 1 |-> PartialSum(geodesic, i)]
        last == d[n - 1]
    IN IF last <= 0 THEN 0
       ELSE LET i == WhileFractionAtMost(d, n, t, 0)
                t1 == d[i] * TSteps - t * last
                t2 == IF i <= n - 2 THEN d[i + 1] * TSteps - t * last
                                    ELSE last * TSteps
            IN IF t1 < t2 THEN i ELSE i + 1

SpaceCrashed == interp.status = "crashed in interpolate"

Returned(op) == [css EXCEPT !.op = op, !.thrown = "none"]
Threw(space, op, what) == [space EXCEPT !.op = op, !.thrown = what]

setSpaceInformation ==
    /\ ~SpaceCrashed
    /\ \E si \in {"null", "other", "this"} :
          css' = IF si = "null"
                 THEN Threw(css, "setSpaceInformation", "si is nullptr")
                 ELSE IF si = "other"
                 THEN Threw(css, "setSpaceInformation", "not the same state space")
                 ELSE [Returned("setSpaceInformation") EXCEPT !.si = "this"]
    /\ UNCHANGED <<neighbors, isSetup, graphVars, edgeCostFactors, graphReady,
                   solveVars, probKeepAddingToAvail, pdefStarts, pdefGoals,
                   limits, calls, pc, interp>>

\* setDelta on the space s: what the space is afterwards.
SetDelta(s, delta) ==
    [s EXCEPT !.delta = delta,
              !.resolution = IF s.setup THEN delta ELSE s.resolution]

setDelta ==
    /\ ~SpaceCrashed
    /\ \E delta \in Deltas :
          css' = IF delta <= 0
                 THEN Threw(css, "setDelta", "delta must be positive")
                 ELSE SetDelta(Returned("setDelta"), delta)
    /\ UNCHANGED <<neighbors, isSetup, graphVars, edgeCostFactors, graphReady,
                   solveVars, probKeepAddingToAvail, pdefStarts, pdefGoals,
                   limits, calls, pc, interp>>

ConstrainedStateSpace_setup ==
    /\ ~SpaceCrashed
    /\ css' = IF css.setup THEN Returned("setup")
              ELSE IF css.si = "null"
              THEN Threw(css, "setup", "no SpaceInformation")
              ELSE LET first == SetDelta(css, css.delta)
                       marked == [first EXCEPT !.setup = TRUE]
                       second == SetDelta(marked, marked.delta)
                   IN IF second.strideOk
                      THEN [second EXCEPT !.op = "setup", !.thrown = "none"]
                      ELSE Threw(second, "setup", "stride length != 1")
    /\ UNCHANGED <<neighbors, isSetup, graphVars, edgeCostFactors, graphReady,
                   solveVars, probKeepAddingToAvail, pdefStarts, pdefGoals,
                   limits, calls, pc, interp>>

interpolate ==
    /\ ~SpaceCrashed
    /\ \E found \in BOOLEAN, geodesic \in Geodesics, t \in Ts :
          LET index == IF found THEN geodesicInterpolate(geodesic, t) ELSE 0
          IN \E outcome \in Outcomes(found /\ index >= Len(geodesic)) :
                interp' = [geodesic |-> geodesic, found |-> found, t |-> t,
                           index |-> index,
                           status |->
                               IF ~found THEN "copied from"
                               ELSE IF index < Len(geodesic)
                               THEN "copied a state of the geodesic"
                               ELSE IF outcome = "crash"
                               THEN "crashed in interpolate"
                               ELSE "copied what follows the geodesic"]
    /\ UNCHANGED <<neighbors, isSetup, graphVars, edgeCostFactors, graphReady,
                   solveVars, probKeepAddingToAvail, pdefStarts, pdefGoals,
                   limits, calls, pc, css>>

\* The space after its constructor, over an underlying space whose state
\* variables are or are not laid out with stride 1; no planner is run.
InitSpace ==
    /\ neighbors = ChainNeighbors
    /\ isSetup = FALSE
    /\ regions = Empty
    /\ adjs = <<>>
    /\ regionsToEdge = Empty
    /\ edgeCostFactors = <<>>
    /\ graphReady = FALSE
    /\ numMotions = 0
    /\ lead = <<>>
    /\ availDist = <<>>
    /\ startRegions = {}
    /\ goalRegions = {}
    /\ probKeepAddingToAvail = PROB_KEEP_ADDING_TO_AVAIL
    /\ tree = <<>>
    /\ pdefStarts = <<>>
    /\ startsTaken = 0
    /\ pdefGoals = 0
    /\ goalsTaken = 0
    /\ ptc = FALSE
    /\ loc = NoLocals
    /\ paths = <<>>
    /\ retval = FALSE
    /\ limits = InDepth
    /\ calls = [setup |-> 0, solve |-> 0, failed |-> 0, clear |-> 0, leads |-> 0]
    /\ pc = "idle"
    /\ \E strideOk \in BOOLEAN :
          css = [si |-> "null", setup |-> FALSE,
                 delta |-> CONSTRAINED_STATE_SPACE_DELTA, resolution |-> 0,
                 strideOk |-> strideOk, op |-> "constructor", thrown |-> "none"]
    /\ interp = NoCall

NextSpace ==
    \/ setSpaceInformation
    \/ setDelta
    \/ ConstrainedStateSpace_setup
    \/ interpolate

SpecSpace == InitSpace /\ [][NextSpace]_vars

(***************************************************************************)
(* C23.  geodesicInterpolate(geodesic, t), for a geodesic of n >= 2 states *)
(* with positive total length and t in [0,1], finds the two adjacent       *)
(* states whose fractions d[i]/last bracket t and returns the one of the   *)
(* two whose fraction is closer to t.  Stated for every interpolation that *)
(* returned a state of the geodesic: some adjacent pair brackets t, the    *)
(* returned state is one of the pair, and neither state of the pair is     *)
(* closer to t than it.  Fractions and t are multiplied by last * TSteps.  *)
(***************************************************************************)
Last(geodesic) == PartialSum(geodesic, Len(geodesic) - 1)
Fraction(geodesic, i) == PartialSum(geodesic, i) * TSteps
Gap(geodesic, t, i) ==
    LET x == Fraction(geodesic, i) - t * Last(geodesic)
    IN IF x < 0 THEN -x ELSE x
Interpolated == interp.found /\ interp.status # "none"

C23_ReturnsCloserOfBracket ==
    LET g == interp.geodesic
        n == Len(g)
        t == interp.t
    IN (Interpolated /\ n >= 2 /\ Last(g) > 0 /\ interp.index < n) =>
          \E lo \in 0 .. n - 2 :
              /\ Fraction(g, lo) <= t * Last(g)
              /\ t * Last(g) <= Fraction(g, lo + 1)
              /\ interp.index \in {lo, lo + 1}
              /\ Gap(g, t, interp.index) <= Gap(g, t, lo)
              /\ Gap(g, t, interp.index) <= Gap(g, t, lo + 1)

(***************************************************************************)
(* C24.  geodesicInterpolate always returns an element of the geodesic it  *)
(* was given: for every geodesic of n >= 1 states and every t in [0,1]     *)
(* the index of the returned state is within 0..n-1, so interpolate never  *)
(* copies from a state outside the geodesic.                               *)
(***************************************************************************)
C24_ReturnsStateOfGeodesic ==
    Interpolated =>
        /\ interp.index \in 0 .. Len(interp.geodesic) - 1
        /\ interp.status = "copied a state of the geodesic"

(***************************************************************************)
(* C25.  The space is marked as set up only if a setup() call completed    *)
(* without throwing: after a setup() that threw, setup_ is false (so a     *)
(* repeated setup() does not return at its first line).                    *)
(***************************************************************************)
C25_SetupThatThrewLeavesUnmarked ==
    (css.op = "setup" /\ css.thrown # "none") => ~css.setup

=============================================================================
